---- MODULE Spec2Model ----
(***************************************************************************)
(* A model of the DeFi risk agent: the eleven HTTP tools of src/tools.py,  *)
(* the lazily initialised agent of src/agent.py, the service executor of   *)
(* src/agent_executor.py and the start-up paths of main.py, src/config.py  *)
(* and src/__main__.py.                                                    *)
(*                                                                         *)
(* The components share no state in the program, so each is explored by    *)
(* its own specification over the same variables:                         *)
(*   SpecTools    one tool invocation against every upstream behaviour     *)
(*   Spec         the service executor serving concurrent requests         *)
(*   SpecStream   the executor with an agent that does offer stream()      *)
(*   SpecStartup  the two start-up paths and the credential checks         *)
(*   SpecAnalyze  DeFiRiskAgent.analyze with the tools and the model reply *)
(*   SpecRun      one agent run: the planner's tool calls, then the reply  *)
(*   SpecHolders  the Helius holder distribution on concrete samples       *)
(*   SpecIncident the SlowMist incident search on concrete documents       *)
(*   SpecTrending the DexScreener trending list on concrete pair lists     *)
(*   SpecLoop     the interactive loop of main.py                          *)
(*   SpecShared   concurrent calls on one shared DeFiRiskAgent             *)
(***************************************************************************)
EXTENDS Integers, Sequences, FiniteSets, TLC

VARIABLES
    call,          \* the last tool invocation: tool, upstream, outcome
    ctx,           \* per request: the RequestContext (message, current_task)
    pc,            \* per request: position of execute()
    queue,         \* per request: the events enqueued on its EventQueue
    generated,     \* per request: the items the agent stream has yielded
    error,         \* per request: the exception execute() propagated
    cancelResult,  \* per request: how the last cancel() ended, and where
                   \* execute() stood when it was called
    agentMethods,  \* the attributes the DeFiRiskAgent object offers
    environ,       \* os.environ["GOOGLE_API_KEY"]: absent, empty or set
    dotenv,        \* the GOOGLE_API_KEY entry of the .env file
    vertex,        \* GOOGLE_GENAI_USE_VERTEXAI = "TRUE"
    startup,       \* the start-up path: entry point, position, what exists
    agent,         \* DeFiRiskAgent: agent, tools, _initialized
    analysis,      \* the last analyze() call: tool results, model reply
    run,           \* one agent run: the tool calls in order, the reply
    repl,          \* the interactive loop: position, what reached the agent
    shared,        \* callers of one shared agent: positions, setups done
    holderCall,    \* a holder-distribution call on a concrete sample
    incidentCall,  \* an incident search on a concrete feed document
    trendingCall   \* a trending call on a concrete upstream pair list

vars == <<call, ctx, pc, queue, generated, error, cancelResult, agentMethods,
          environ, dotenv, vertex, startup, agent, analysis, run, repl, shared,
          holderCall, incidentCall, trendingCall>>

toolVars == <<call, holderCall, incidentCall, trendingCall>>
execVars == <<ctx, pc, queue, generated, error, cancelResult, agentMethods>>
startVars == <<environ, dotenv, vertex, startup>>
agentVars == <<agent, analysis, run, repl, shared>>

(***************************************************************************)
(* Upstream behaviour of one outbound GET.                                 *)
(***************************************************************************)

\* What the remote end can do with one client.get(...): fail to connect,
\* time out, or answer with a status code and a body.  The body is abstracted
\* by what the tools read of it: whether response.json() parses it and to
\* what, the state of the key the tool reads (payload), the GoPlus
\* is_mint_authority_renounced field (mint), and whether response.text
\* contains the term the tool searches for (text).
Resp(kind, code, json, payload, mint, text) ==
    [kind |-> kind, code |-> code, json |-> json, payload |-> payload,
     mint |-> mint, text |-> text]

StatusCodes == {200, 404, 500}

\* absent: the key is missing; null: it is JSON null; empty: an empty
\* container; bad: a value of the wrong shape; good: well formed.
Payloads == {"absent", "null", "empty", "bad", "good"}

\* is_mint_authority_renounced: missing, falsy (active) or truthy (renounced)
Mints == {"absent", "active", "renounced"}

Texts == {"match", "nomatch"}

NoResponse == Resp("none", 0, "invalid", "absent", "absent", "nomatch")

Responses ==
    {Resp(k, 0, "invalid", "absent", "absent", "nomatch") :
        k \in {"connect_error", "timeout"}}
    \cup {Resp("response", c, j, "absent", "absent", t) :
            c \in StatusCodes, j \in {"invalid", "array"}, t \in Texts}
    \cup {Resp("response", c, "object", p, "absent", t) :
            c \in StatusCodes, p \in Payloads \ {"good"}, t \in Texts}
    \cup {Resp("response", c, "object", "good", m, t) :
            c \in StatusCodes, m \in Mints, t \in Texts}

(***************************************************************************)
(* Outcomes of a tool body.                                                *)
(***************************************************************************)

\* The dict a tool returns, by the fields the agent reads.
Result(status, risk_level, mint_authority, source) ==
    [status |-> status, risk_level |-> risk_level,
     mint_authority |-> mint_authority, source |-> source]

NoResult == Result("none", "none", "none", "none")

\* `return d` after n outbound calls
Ret(d, n) == [raised |-> FALSE, result |-> d, calls |-> n]

\* an exception raised after n outbound calls
Raise(n) == [raised |-> TRUE, result |-> NoResult, calls |-> n]

\* client.get raises on a connection failure or a timeout
GetRaises(u) == u.kind # "response"

\* response.json() raises on a body that is not JSON; data.get(...) raises
\* AttributeError when the JSON value is not an object
JsonRaises(u) == u.json \in {"invalid", "array"}

\* A try without its handler: the exception leaves the tool.
Try_NoExcept(o, handler) == o

\* try: <body> except Exception as e: return <handler>
Try(o, handler) ==
    IF o.raised THEN Ret(handler, o.calls) ELSE o

(***************************************************************************)
(* The eleven tools of src/tools.py.  Each operator gives the outcome of   *)
(* one invocation against the upstream behaviour u.                        *)
(***************************************************************************)

\* A security tool that reads a missing field as not alarming.
analyze_token_security_lenient(u) ==
    Try(IF GetRaises(u) THEN Raise(1)
        ELSE IF u.code = 200
        THEN IF JsonRaises(u) \/ u.payload \in {"null", "bad"} THEN Raise(1)
             ELSE IF u.payload = "good"
             THEN Ret(Result("success",
                             IF u.mint = "active" THEN "high" ELSE "medium",
                             IF u.mint = "absent" THEN "unknown" ELSE u.mint,
                             "GoPlus"), 1)
             ELSE Ret(Result("not_found", "none", "none", "none"), 1)
        ELSE Ret(Result("error", "none", "none", "none"), 1),
        Result("error", "none", "none", "none"))

\* GoPlus.  payload is data["result"][token_address]: "null" is a null
\* "result" (None.get raises), "bad" a non-empty value that is no object
\* (token_data.get raises).
analyze_token_security(u) ==
    Try(IF GetRaises(u) THEN Raise(1)
        ELSE IF u.code = 200
        THEN IF JsonRaises(u) \/ u.payload \in {"null", "bad"} THEN Raise(1)
             ELSE IF u.payload = "good"
             THEN Ret(Result("success",
                             IF u.mint = "renounced" THEN "medium" ELSE "high",
                             IF u.mint = "absent" THEN "unknown" ELSE u.mint,
                             "GoPlus"), 1)
             ELSE Ret(Result("not_found", "none", "none", "none"), 1)
        ELSE Ret(Result("error", "none", "none", "none"), 1),
        Result("error", "none", "none", "none"))

\* A metadata tool that also turns to Jupiter when the Solscan GET raises.
get_token_metadata_and_security_refetch(u, u2) ==
    Try(IF ~GetRaises(u) /\ u.code = 200
        THEN IF JsonRaises(u) \/ u.payload = "bad" THEN Raise(1)
             ELSE IF u.payload \in {"absent", "null"}
             THEN Ret(Result("not_found", "none", "none", "none"), 1)
             ELSE Ret(Result("success", "none", "none", "Solscan"), 1)
        ELSE IF GetRaises(u2) THEN Raise(2)
        ELSE IF u2.code = 200
        THEN IF JsonRaises(u2) THEN Raise(2)
             ELSE Ret(Result("success", "none", "none", "Jupiter"), 2)
        ELSE Ret(Result("error", "none", "none", "none"), 2),
        Result("error", "none", "none", "none"))

\* Solscan, then Jupiter when Solscan does not answer 200.  payload is
\* data["success"] with data["data"]: "absent"/"null" a falsy success,
\* "bad" a true success with a null data (token_data.get raises).
get_token_metadata_and_security(u, u2) ==
    Try(IF GetRaises(u) THEN Raise(1)
        ELSE IF u.code = 200
        THEN IF JsonRaises(u) \/ u.payload = "bad" THEN Raise(1)
             ELSE IF u.payload \in {"absent", "null"}
             THEN Ret(Result("not_found", "none", "none", "none"), 1)
             ELSE Ret(Result("success", "none", "none", "Solscan"), 1)
        ELSE IF GetRaises(u2) THEN Raise(2)
        ELSE IF u2.code = 200
        THEN IF JsonRaises(u2) THEN Raise(2)
             ELSE Ret(Result("success", "none", "none", "Jupiter"), 2)
        ELSE Ret(Result("error", "none", "none", "none"), 2),
        Result("error", "none", "none", "none"))

\* Rugcheck web page: text is whether "Risk" or "risk" occurs in the HTML.
analyze_token_with_rugcheck(u) ==
    Try(IF GetRaises(u) THEN Raise(1)
        ELSE IF u.code = 200
        THEN IF u.text = "match"
             THEN Ret(Result("success", "none", "none", "Rugcheck (Web)"), 1)
             ELSE Ret(Result("not_found", "none", "none", "none"), 1)
        ELSE Ret(Result("not_found", "none", "none", "none"), 1),
        Result("error", "none", "none", "none"))

\* The three DexScreener search tools share one shape.  payload is
\* data["pairs"]: "bad" a non-empty value whose first entry cannot be read
\* (pair.get, a null "liquidity", float() of a non-numeric priceUsd).
DexScreenerSearch(u) ==
    Try(IF GetRaises(u) THEN Raise(1)
        ELSE IF u.code = 200
        THEN IF JsonRaises(u) \/ u.payload = "bad" THEN Raise(1)
             ELSE IF u.payload = "good"
             THEN Ret(Result("success", "none", "none", "none"), 1)
             ELSE Ret(Result("not_found", "none", "none", "none"), 1)
        ELSE Ret(Result("error", "none", "none", "none"), 1),
        Result("error", "none", "none", "none"))

get_token_holders(u) == DexScreenerSearch(u)

get_trading_metrics(u) == DexScreenerSearch(u)

get_token_details(u) == DexScreenerSearch(u)

\* DexScreener trending.  A missing, null or empty "pairs" gives an empty
\* list, which is still a success.
get_trending_tokens(u) ==
    Try(IF GetRaises(u) THEN Raise(1)
        ELSE IF u.code = 200
        THEN IF JsonRaises(u) \/ u.payload = "bad" THEN Raise(1)
             ELSE Ret(Result("success", "none", "none", "none"), 1)
        ELSE Ret(Result("error", "none", "none", "none"), 1),
        Result("error", "none", "none", "none"))

\* An incident tool that tags a match "found".
check_security_incidents_found(u) ==
    Try(IF GetRaises(u) THEN Raise(1)
        ELSE IF u.code = 200
        THEN IF u.text = "match"
             THEN Ret(Result("found", "high", "none", "none"), 1)
             ELSE Ret(Result("clean", "low", "none", "none"), 1)
        ELSE Ret(Result("unknown", "none", "none", "none"), 1),
        Result("error", "none", "none", "none"))

\* SlowMist.  text is whether search_term.lower() occurs in html.lower().
check_security_incidents(u) ==
    Try(IF GetRaises(u) THEN Raise(1)
        ELSE IF u.code = 200
        THEN IF u.text = "match"
             THEN Ret(Result("warning", "high", "none", "none"), 1)
             ELSE Ret(Result("clean", "low", "none", "none"), 1)
        ELSE Ret(Result("unknown", "none", "none", "none"), 1),
        Result("error", "none", "none", "none"))

\* CertiK.  Every JSON object is a success; every other status code is
\* reported as not_audited.
check_certik_audit_status(u) ==
    Try(IF GetRaises(u) THEN Raise(1)
        ELSE IF u.code = 200
        THEN IF JsonRaises(u) THEN Raise(1)
             ELSE Ret(Result("success", "none", "none", "CertiK"), 1)
        ELSE Ret(Result("not_audited", "none", "none", "none"), 1),
        Result("error", "none", "none", "none"))

\* Helius holders.  payload is data["holders"]: "bad" holds an entry whose
\* amount float() rejects or that is no object.
get_token_holder_distribution_helius(u) ==
    Try(IF GetRaises(u) THEN Raise(1)
        ELSE IF u.code = 200
        THEN IF JsonRaises(u) \/ u.payload = "bad" THEN Raise(1)
             ELSE IF u.payload = "good"
             THEN Ret(Result("success", "none", "none", "Helius RPC"), 1)
             ELSE Ret(Result("no_data", "none", "none", "none"), 1)
        ELSE Ret(Result("error", "none", "none", "none"), 1),
        Result("error", "none", "none", "none"))

\* Helius transactions.  payload is data["transactions"]: a null value
\* raises at transactions[:5]; a missing or empty list is a success.
get_token_transaction_history(u) ==
    Try(IF GetRaises(u) THEN Raise(1)
        ELSE IF u.code = 200
        THEN IF JsonRaises(u) \/ u.payload \in {"null", "bad"} THEN Raise(1)
             ELSE Ret(Result("success", "none", "none", "Helius RPC"), 1)
        ELSE Ret(Result("error", "none", "none", "none"), 1),
        Result("error", "none", "none", "none"))

\* The registry: the tools handed to the agent.
get_tools ==
    {"analyze_token_security", "get_token_metadata_and_security",
     "analyze_token_with_rugcheck", "check_security_incidents",
     "check_certik_audit_status", "get_token_holder_distribution_helius",
     "get_token_transaction_history", "get_token_holders",
     "get_trading_metrics", "get_token_details", "get_trending_tokens"}

\* tool.ainvoke(...): the outcome of tool t against upstream u (and u2 for
\* the one tool with a second source).
ToolCall(t, u, u2) ==
    CASE t = "analyze_token_security" -> analyze_token_security(u)
      [] t = "get_token_metadata_and_security" ->
            get_token_metadata_and_security(u, u2)
      [] t = "analyze_token_with_rugcheck" -> analyze_token_with_rugcheck(u)
      [] t = "check_security_incidents" -> check_security_incidents(u)
      [] t = "check_certik_audit_status" -> check_certik_audit_status(u)
      [] t = "get_token_holder_distribution_helius" ->
            get_token_holder_distribution_helius(u)
      [] t = "get_token_transaction_history" ->
            get_token_transaction_history(u)
      [] t = "get_token_holders" -> get_token_holders(u)
      [] t = "get_trading_metrics" -> get_trading_metrics(u)
      [] t = "get_token_details" -> get_token_details(u)
      [] t = "get_trending_tokens" -> get_trending_tokens(u)

\* The second source is consulted by the metadata tool alone.
SecondSource(t) ==
    IF t = "get_token_metadata_and_security" THEN Responses ELSE {NoResponse}

NoCall ==
    [tool |-> "none", u |-> NoResponse, u2 |-> NoResponse, state |-> "none",
     returned |-> <<>>, escaped |-> FALSE, calls |-> 0]

\* A tool invocation about to run: the tool and what its upstream will do.
PendingCalls ==
    {[NoCall EXCEPT !.tool = t, !.u = u, !.u2 = u2, !.state = "pending"] :
        t \in get_tools, u \in Responses, u2 \in Responses \cup {NoResponse}}

\* One invocation of a registered tool: the caller receives the returned
\* records (returned) or the exception that left the tool (escaped).
InvokeTool ==
    /\ call.state = "pending"
    /\ call' = LET o == ToolCall(call.tool, call.u, call.u2)
               IN  [call EXCEPT !.state = "done",
                        !.returned = IF o.raised THEN <<>> ELSE <<o.result>>,
                        !.escaped = o.raised, !.calls = o.calls]
    /\ UNCHANGED <<holderCall, incidentCall, trendingCall>>
    /\ UNCHANGED <<execVars, startVars, agentVars>>

(***************************************************************************)
(* The state of a DeFiRiskAgent object, src/agent.py.                      *)
(***************************************************************************)

\* __init__ and close(): no agent, no tools, not initialized.
ClosedAgent == [agent |-> "None", tools |-> "None", _initialized |-> FALSE]

\* initialize(): nothing when already initialized; else load the tools,
\* build the model client and the ReAct agent, set _initialized.  The
\* coroutine holds no await, so it runs in one step.
initialized(a) ==
    IF a._initialized
    THEN a
    ELSE [agent |-> "create_agent", tools |-> "get_tools", _initialized |-> TRUE]

(***************************************************************************)
(* The service executor, src/agent_executor.py.                            *)
(***************************************************************************)

\* The requests in flight; each has its own RequestContext and EventQueue.
Requests == {"r1", "r2"}

\* The longest item sequence an agent stream yields in the model.
MaxStreamLen == 2

\* The attributes class DeFiRiskAgent defines.
DeFiRiskAgent ==
    {"__init__", "initialize", "analyze", "chat", "get_trending_tokens",
     "quick_lookup", "check_holders", "close", "__aenter__", "__aexit__"}

\* The task of a request: context.current_task when there is one, else the
\* task new_task(context.message) creates.
TaskOf(r) ==
    [id |-> <<r, IF ctx[r].current_task THEN "current" ELSE "new">>,
     context_id |-> <<r, "context">>]

\* An event on the queue.  text is the content of the stream item it
\* carries (the position of the item in its stream), 0 when it carries none.
Event(kind, state, final, task, text) ==
    [kind |-> kind, state |-> state, final |-> final, task_id |-> task.id,
     context_id |-> task.context_id, text |-> text,
     append |-> FALSE, last_chunk |-> (kind = "artifact")]

\* An enqueue that puts the event in front of the queue.
enqueue_event_front(q, r, e) == [q EXCEPT ![r] = <<e>> \o @]

\* await event_queue.enqueue_event(e): e goes behind the events already
\* on the queue of request r.
enqueue_event(q, r, e) == [q EXCEPT ![r] = Append(@, e)]

\* An execute() that enqueues a task whether or not the request has one.
execute_begin_task_always(r) ==
    /\ pc[r] = "ready"
    /\ IF ~ctx[r].message
       THEN /\ pc' = [pc EXCEPT ![r] = "raised"]
            /\ error' = [error EXCEPT ![r] = "No message provided"]
            /\ queue' = queue
       ELSE /\ pc' = [pc EXCEPT ![r] = "created"]
            /\ error' = error
            /\ queue' = enqueue_event(queue, r,
                             Event("task", "submitted", FALSE, TaskOf(r), 0))
    /\ UNCHANGED <<ctx, generated, cancelResult, agentMethods>>
    /\ UNCHANGED <<toolVars, startVars, agentVars>>

\* Lines 35-43: read the request, fail without a message, create and
\* enqueue a task when the request has none.
execute_begin(r) ==
    /\ pc[r] = "ready"
    /\ IF ~ctx[r].message
       THEN /\ pc' = [pc EXCEPT ![r] = "raised"]
            /\ error' = [error EXCEPT ![r] = "No message provided"]
            /\ queue' = queue
       ELSE /\ pc' = [pc EXCEPT ![r] = "created"]
            /\ error' = error
            /\ queue' = IF ~ctx[r].current_task
                        THEN enqueue_event(queue, r,
                                 Event("task", "submitted", FALSE, TaskOf(r), 0))
                        ELSE queue
    /\ UNCHANGED <<ctx, generated, cancelResult, agentMethods>>
    /\ UNCHANGED <<toolVars, startVars, agentVars>>

\* What calling a stream() that the agent offers does to the agent before
\* the first item: the agent's lazy one-time setup, as in analyze and chat.
stream_setup(a) == initialized(a)

\* Line 45: self.agent.stream(query, task.context_id), on the one agent
\* the executor constructed for all requests (line 27).  The attribute is
\* looked up on the agent object; an object without it raises
\* AttributeError, which execute() does not catch.
execute_stream(r) ==
    /\ pc[r] = "created"
    /\ IF "stream" \in agentMethods
       THEN /\ pc' = [pc EXCEPT ![r] = "streaming"]
            /\ error' = error
            /\ agent' = stream_setup(agent)
       ELSE /\ pc' = [pc EXCEPT ![r] = "raised"]
            /\ error' = [error EXCEPT ![r] = "AttributeError: stream"]
            /\ agent' = agent
    /\ UNCHANGED <<ctx, queue, generated, cancelResult, agentMethods>>
    /\ UNCHANGED <<analysis, run, repl, shared>>
    /\ UNCHANGED <<toolVars, startVars>>

\* The items a stream yields: the two flags execute() reads, and the
\* content, which is the position of the item in its stream.
Items(n) ==
    [is_task_complete : BOOLEAN, require_user_input : BOOLEAN, content : {n}]

\* Lines 46-99: the events enqueued for one item of the stream.
EventsFor(r, item) ==
    IF item.is_task_complete
    THEN <<Event("artifact", "none", FALSE, TaskOf(r), item.content),
           Event("status", "completed", TRUE, TaskOf(r), 0)>>
    ELSE IF item.require_user_input
    THEN <<Event("status", "input_required", TRUE, TaskOf(r), item.content)>>
    ELSE <<Event("status", "working", FALSE, TaskOf(r), item.content)>>

\* One turn of the loop of line 45: the stream yields an item and the
\* body enqueues its events.
execute_item(r) ==
    /\ pc[r] = "streaming"
    /\ Len(generated[r]) < MaxStreamLen
    /\ \E item \in Items(Len(generated[r]) + 1) :
          /\ generated' = [generated EXCEPT ![r] = Append(@, item)]
          /\ queue' = LET es == EventsFor(r, item)
                      IN  IF Len(es) = 2
                          THEN enqueue_event(enqueue_event(queue, r, es[1]), r, es[2])
                          ELSE enqueue_event(queue, r, es[1])
    /\ UNCHANGED <<ctx, pc, error, cancelResult, agentMethods>>
    /\ UNCHANGED <<toolVars, startVars, agentVars>>

\* The stream is exhausted: the loop ends and execute() returns.
execute_end(r) ==
    /\ pc[r] = "streaming"
    /\ pc' = [pc EXCEPT ![r] = "done"]
    /\ UNCHANGED <<ctx, queue, generated, error, cancelResult, agentMethods>>
    /\ UNCHANGED <<toolVars, startVars, agentVars>>

\* The stream raises (the model or a tool call failed): nothing in
\* execute() catches it.
execute_stream_raises(r) ==
    /\ pc[r] = "streaming"
    /\ pc' = [pc EXCEPT ![r] = "raised"]
    /\ error' = [error EXCEPT ![r] = "agent error"]
    /\ UNCHANGED <<ctx, queue, generated, cancelResult, agentMethods>>
    /\ UNCHANGED <<toolVars, startVars, agentVars>>

\* A cancel that returns without a word.
cancel_silent(r) ==
    /\ cancelResult' = [cancelResult EXCEPT ![r] = [result |-> "returned", at |-> pc[r]]]
    /\ UNCHANGED <<ctx, pc, queue, generated, error, agentMethods>>
    /\ UNCHANGED <<toolVars, startVars, agentVars>>

\* Lines 101-103: raise Exception("cancel not supported"), in every state.
cancel(r) ==
    /\ cancelResult' = [cancelResult EXCEPT ![r] = [result |-> "raised", at |-> pc[r]]]
    /\ UNCHANGED <<ctx, pc, queue, generated, error, agentMethods>>
    /\ UNCHANGED <<toolVars, startVars, agentVars>>

(***************************************************************************)
(* Start-up: main.py (interactive) and src/__main__.py (service), both of  *)
(* which import src/config.py.                                             *)
(***************************************************************************)

KeyStates == {"absent", "empty", "set"}

\* load_dotenv(override=...): an entry of the .env file is written to
\* os.environ when the variable is not there yet, or always under override.
load_dotenv(env, file, override) ==
    IF file # "absent" /\ (override \/ env = "absent") THEN file ELSE env

\* A config module that reads the key and goes on without checking it.
import_config_unchecked ==
    /\ startup.at = "boot"
    /\ environ' = load_dotenv(environ, dotenv, FALSE)
    /\ startup' = [startup EXCEPT !.at = "imported", !.key = environ']
    /\ UNCHANGED <<dotenv, vertex>>
    /\ UNCHANGED <<toolVars, execVars, agentVars>>

\* src/config.py, run by the first import of the package (main.py:3,
\* __main__.py:16 through agent_executor.py:15 and agent.py:7):
\* load_dotenv(), read GOOGLE_API_KEY, raise ValueError when it is falsy.
import_config ==
    /\ startup.at = "boot"
    /\ environ' = load_dotenv(environ, dotenv, FALSE)
    /\ startup' = IF environ' = "set"
                  THEN [startup EXCEPT !.at = "imported", !.key = environ']
                  ELSE [startup EXCEPT !.at = "failed", !.key = environ',
                            !.error = "GOOGLE_API_KEY environment variable is not set"]
    /\ UNCHANGED <<dotenv, vertex>>
    /\ UNCHANGED <<toolVars, execVars, agentVars>>

\* __main__.py:20: load_dotenv(override=True)
main_load_dotenv ==
    /\ startup.entry = "service"
    /\ startup.at = "imported"
    /\ environ' = load_dotenv(environ, dotenv, TRUE)
    /\ startup' = [startup EXCEPT !.at = "loaded"]
    /\ UNCHANGED <<dotenv, vertex>>
    /\ UNCHANGED <<toolVars, execVars, agentVars>>

\* __main__.py:34-42: the key is required unless Vertex AI is selected.
main_check ==
    /\ startup.entry = "service"
    /\ startup.at = "loaded"
    /\ startup' = IF ~vertex /\ environ # "set"
                  THEN [startup EXCEPT !.at = "failed",
                            !.error = "GOOGLE_API_KEY environment variable not set"]
                  ELSE [startup EXCEPT !.at = "checked"]
    /\ UNCHANGED <<environ, dotenv, vertex>>
    /\ UNCHANGED <<toolVars, execVars, agentVars>>

\* main.py:29 agent = DeFiRiskAgent(); __main__.py:45
\* DeFiRiskAgentExecutor(), whose __init__ constructs the agent.
construct_agent ==
    /\ \/ startup.entry = "interactive" /\ startup.at = "imported"
       \/ startup.entry = "service" /\ startup.at = "checked"
    /\ startup' = [startup EXCEPT !.at = "constructed", !.agent = TRUE]
    /\ UNCHANGED <<environ, dotenv, vertex>>
    /\ UNCHANGED <<toolVars, execVars, agentVars>>

\* main.py:32 await agent.initialize(): the model client is built with
\* the key config.py read.
interactive_initialize ==
    /\ startup.entry = "interactive"
    /\ startup.at = "constructed"
    /\ startup' = [startup EXCEPT !.at = "initialized", !.llm = TRUE]
    /\ UNCHANGED <<environ, dotenv, vertex>>
    /\ UNCHANGED <<toolVars, execVars, agentVars>>

\* main.py:46 agent.chat(user_input); __main__.py:75 uvicorn_server.serve()
serve ==
    /\ \/ startup.entry = "interactive" /\ startup.at = "initialized"
       \/ startup.entry = "service" /\ startup.at = "constructed"
    /\ startup' = [startup EXCEPT !.at = "serving", !.served = TRUE]
    /\ UNCHANGED <<environ, dotenv, vertex>>
    /\ UNCHANGED <<toolVars, execVars, agentVars>>

(***************************************************************************)
(* The agent, src/agent.py.                                                *)
(***************************************************************************)

Verdicts == {"SAFE", "CAUTION", "DANGEROUS", "CRITICAL"}

\* What self.agent.ainvoke(...) can hand back.  The final message is text
\* written by the language model under RISK_AGENT_SYSTEM_PROMPT; nothing in
\* the program parses or checks it, so every text is possible: one with or
\* without a "Risk Score: X/10" line (has_score, score) and with any or no
\* verdict word.  The call can also raise (the model API fails).
Replies ==
    {[raised |-> TRUE, has_score |-> FALSE, score |-> 0, verdict |-> "none"]}
    \cup {[raised |-> FALSE, has_score |-> FALSE, score |-> 0, verdict |-> v] :
            v \in Verdicts \cup {"none"}}
    \cup {[raised |-> FALSE, has_score |-> TRUE, score |-> n, verdict |-> v] :
            n \in 0..11, v \in Verdicts \cup {"none"}}

NoAnalysis ==
    [state |-> "none", plan |-> {}, uSec |-> NoResponse, uInc |-> NoResponse,
     security |-> NoResult, incident |-> NoResult,
     has_score |-> FALSE, score |-> 0, verdict |-> "none"]

\* An analyze() call about to run: the tools the planner will call (of the
\* two whose results the verdict rules name) and what their upstreams will
\* do.  The security tool reads no text and the incident tool no JSON.
PendingAnalyses ==
    {[NoAnalysis EXCEPT !.state = "pending", !.plan = p, !.uSec = us, !.uInc = ui] :
        p \in SUBSET {"analyze_token_security", "check_security_incidents"},
        us \in {u \in Responses : u.text = "nomatch"},
        ui \in {u \in Responses : u.json = "invalid"}}

\* The result of a tool the planner chose to call, NoResult otherwise.
Called(t, plan, u) ==
    IF t \in plan THEN ToolCall(t, u, NoResponse).result ELSE NoResult

DeFiRiskAgent_initialize ==
    /\ ~agent._initialized
    /\ agent' = initialized(agent)
    /\ UNCHANGED <<analysis, run, repl, shared>>
    /\ UNCHANGED <<toolVars, execVars, startVars>>

\* analyze(token_address): initialize when needed, run the agent on the
\* analysis prompt and return its result unchanged.  The planner (the
\* model) chooses which tools run; their results reach the model, and the
\* model's reply is what analyze returns.
DeFiRiskAgent_analyze ==
    /\ analysis.state = "pending"
    /\ agent' = initialized(agent)
    /\ \E reply \in Replies :
          analysis' =
             [analysis EXCEPT
                !.state = IF reply.raised THEN "raised" ELSE "returned",
                !.security = Called("analyze_token_security",
                                    analysis.plan, analysis.uSec),
                !.incident = Called("check_security_incidents",
                                    analysis.plan, analysis.uInc),
                !.has_score = reply.has_score, !.score = reply.score,
                !.verdict = reply.verdict]
    /\ UNCHANGED <<run, repl, shared>>
    /\ UNCHANGED <<toolVars, execVars, startVars>>

\* close(): drop the agent and the tools.
DeFiRiskAgent_close ==
    /\ agent._initialized
    /\ agent' = ClosedAgent
    /\ UNCHANGED <<analysis, run, repl, shared>>
    /\ UNCHANGED <<toolVars, execVars, startVars>>

(***************************************************************************)
(* One agent run: the ReAct agent of src/agent.py under the protocol of    *)
(* src/prompts.py.                                                         *)
(***************************************************************************)

\* "Phase 1: Quick Scan (MANDATORY)" of the system prompt
Phase1 ==
    {"analyze_token_security", "check_certik_audit_status", "get_token_details"}

\* "Phase 2: Deep Dive (CONDITIONAL - if Phase 1 passes)"
Phase2 ==
    {"check_security_incidents", "get_token_holder_distribution_helius",
     "get_token_transaction_history", "get_trading_metrics"}

\* the tool calls explored in one run
MaxToolCalls == 3

\* Every record a tool can hand the planner, over every upstream behaviour.
ToolResults ==
    [t \in get_tools |->
        {ToolCall(t, u, u2).result : u \in Responses, u2 \in SecondSource(t)}]

\* get_token_details reports liquidity_usd, the figure the protocol compares
\* with $1k; no other tool result carries it.
Liquidities(t, d) ==
    IF t = "get_token_details" /\ d.status = "success"
    THEN {"below_1k", "at_least_1k"}
    ELSE {"none"}

\* What ainvoke can end with: an exception of the model API, or a final
\* text of the model, with or without a numeric score, with any or no
\* verdict word, saying or not saying that the data is insufficient.
RunReplies ==
    {[raised |-> TRUE, has_score |-> FALSE, verdict |-> "none",
      insufficient |-> FALSE]}
    \cup {[raised |-> FALSE, has_score |-> s, verdict |-> v,
           insufficient |-> i] :
            s \in BOOLEAN, v \in Verdicts \cup {"none"}, i \in BOOLEAN}

NoRun ==
    [state |-> "none", calls |-> <<>>,
     reply |-> [raised |-> FALSE, has_score |-> FALSE, verdict |-> "none",
                insufficient |-> FALSE]]

\* The model asks for a tool: create_agent binds all of get_tools() and the
\* model picks any of them at any turn; the program holds no code that
\* orders or withholds a tool.
agent_tool_call ==
    /\ run.state = "planning"
    /\ Len(run.calls) < MaxToolCalls
    /\ \E t \in get_tools :
         \E d \in ToolResults[t] :
           \E l \in Liquidities(t, d) :
              run' = [run EXCEPT !.calls =
                         Append(@, [tool |-> t, result |-> d, liquidity |-> l])]
    /\ UNCHANGED <<agent, analysis, repl, shared>>
    /\ UNCHANGED <<toolVars, execVars, startVars>>

\* The model answers without a tool call and ainvoke returns (or the model
\* API fails and ainvoke raises).
agent_reply ==
    /\ run.state = "planning"
    /\ \E reply \in RunReplies :
          run' = [run EXCEPT
                     !.state = IF reply.raised THEN "raised" ELSE "returned",
                     !.reply = reply]
    /\ UNCHANGED <<agent, analysis, repl, shared>>
    /\ UNCHANGED <<toolVars, execVars, startVars>>

(***************************************************************************)
(* The interactive loop, main.py.                                          *)
(***************************************************************************)

\* The commands HELP_TEXT advertises, by their first word.
HELP_TEXT == {"analyze", "quick", "holders", "trending", "help", "quit", "exit"}

\* What the user can do at the prompt: type a line, close the input (EOF)
\* or press Ctrl-C.
Lines == {"quit", "exit", "help", " quit ", "analyze X", "is X safe?", "", "  "}

\* str.strip()
strip(line) ==
    CASE line = " quit " -> "quit"
      [] line = "  " -> ""
      [] OTHER -> line

\* What agent.chat(message) can do: return the model's result or raise.
ChatOutcomes == {"returned", "raised"}

NoRepl ==
    [at |-> "none", last |-> "none", sent |-> {}, help_shown |-> 0,
     failure |-> "none", raised |-> FALSE]

\* agent = DeFiRiskAgent(); await agent.initialize(); print(HELP_TEXT).
\* initialize() raising is caught by `except Exception`, reported and raised
\* again after `finally: await agent.close()`: the exception leaves
\* interactive_mode (raised).
interactive_mode_begin ==
    /\ repl.at = "start"
    /\ \E ok \in BOOLEAN :
          IF ok
          THEN /\ agent' = initialized(agent)
               /\ repl' = [repl EXCEPT !.at = "prompt", !.help_shown = 1]
          ELSE /\ agent' = ClosedAgent
               /\ repl' = [repl EXCEPT !.at = "ended", !.failure = "exception",
                                  !.raised = TRUE]
    /\ UNCHANGED <<analysis, run, shared>>
    /\ UNCHANGED <<toolVars, execVars, startVars>>

\* One turn of `while True`: read a line and strip it; EOF breaks; an empty
\* line continues; every other line goes to agent.chat and the response is
\* printed.  Ctrl-C and an exception of chat leave the loop: Ctrl-C is
\* reported and swallowed, an exception is reported as "Error: ..." and
\* raised again.  `finally` closes the agent on every way out.
interactive_mode_turn ==
    /\ repl.at = "prompt"
    /\ \/ \E line \in Lines :
            LET user_input == strip(line) IN
            IF user_input = ""
            THEN /\ repl' = [repl EXCEPT !.last = user_input]
                 /\ UNCHANGED agent
            ELSE \E o \in ChatOutcomes :
                    IF o = "returned"
                    THEN /\ repl' = [repl EXCEPT !.last = user_input,
                                        !.sent = @ \cup {user_input}]
                         /\ agent' = initialized(agent)
                    ELSE /\ repl' = [repl EXCEPT !.last = user_input,
                                        !.sent = @ \cup {user_input},
                                        !.at = "ended",
                                        !.failure = "exception",
                                        !.raised = TRUE]
                         /\ agent' = ClosedAgent
       \/ /\ repl' = [repl EXCEPT !.last = "EOF", !.at = "ended"]
          /\ agent' = ClosedAgent
       \/ /\ repl' = [repl EXCEPT !.last = "KeyboardInterrupt",
                         !.at = "ended", !.failure = "interrupted"]
          /\ agent' = ClosedAgent
    /\ UNCHANGED <<analysis, run, shared>>
    /\ UNCHANGED <<toolVars, execVars, startVars>>

(***************************************************************************)
(* Concurrent calls on one shared DeFiRiskAgent, src/agent.py.  The calls  *)
(* are coroutines of one event loop: a call runs without interruption from *)
(* one await that suspends to the next, and the only such await of the     *)
(* agent's methods is self.agent.ainvoke(...).                             *)
(***************************************************************************)

Callers == {"c1", "c2"}

\* The methods that run the model; the last three delegate to chat.
Methods ==
    {"analyze", "chat", "get_trending_tokens", "quick_lookup", "check_holders"}

\* An initialize() that builds the model and the agent at every call.
constructs_always(a) == 1

\* The number of times one initialize() call on agent a constructs the
\* model and the ReAct agent: none when `if self._initialized: return`.
constructs(a) == IF a._initialized THEN 0 ELSE 1

\* initialize() left by an exception of ChatGoogleGenerativeAI(...) or
\* create_agent(...): the tools are loaded, the rest is as it was.
initialize_raised(a) == [a EXCEPT !.tools = "get_tools"]

NoShared ==
    [pc |-> [c \in Callers |-> "none"], method |-> [c \in Callers |-> "none"],
     setups |-> 0, last |-> [op |-> "none", before |-> ClosedAgent]]

\* analyze / chat up to the await of ainvoke: `if not self._initialized:
\* await self.initialize()`, which awaits nothing that suspends, and then
\* the model call begins.  When initialize() raises, so does the call.
shared_call(c) ==
    /\ shared.pc[c] = "idle"
    /\ \E m \in Methods :
        \E ok \in BOOLEAN :
          IF agent._initialized \/ ok
          THEN /\ agent' = initialized(agent)
               /\ shared' = [shared EXCEPT !.pc[c] = "ainvoke",
                                !.method[c] = m,
                                !.setups = @ + constructs(agent),
                                !.last = [op |-> m, before |-> agent]]
          ELSE /\ agent' = initialize_raised(agent)
               /\ shared' = [shared EXCEPT
                                !.last = [op |-> m, before |-> agent]]
    /\ UNCHANGED <<analysis, run, repl>>
    /\ UNCHANGED <<toolVars, execVars, startVars>>

\* ainvoke returns or raises, and so does the call.
shared_return(c) ==
    /\ shared.pc[c] = "ainvoke"
    /\ shared' = [shared EXCEPT !.pc[c] = "idle", !.method[c] = "none",
                     !.last = [op |-> "return", before |-> agent]]
    /\ UNCHANGED <<agent, analysis, run, repl>>
    /\ UNCHANGED <<toolVars, execVars, startVars>>

\* A direct call of initialize() (also __aenter__), whatever the others do.
shared_initialize ==
    /\ \E ok \in BOOLEAN :
          IF agent._initialized \/ ok
          THEN /\ agent' = initialized(agent)
               /\ shared' = [shared EXCEPT
                                !.setups = @ + constructs(agent),
                                !.last = [op |-> "initialize", before |-> agent]]
          ELSE /\ agent' = initialize_raised(agent)
               /\ shared' = [shared EXCEPT
                                !.last = [op |-> "initialize", before |-> agent]]
    /\ UNCHANGED <<analysis, run, repl>>
    /\ UNCHANGED <<toolVars, execVars, startVars>>

\* close() (also __aexit__), whatever the others do.
shared_close ==
    /\ agent' = ClosedAgent
    /\ shared' = [shared EXCEPT !.setups = 0,
                     !.last = [op |-> "close", before |-> agent]]
    /\ UNCHANGED <<analysis, run, repl>>
    /\ UNCHANGED <<toolVars, execVars, startVars>>

(***************************************************************************)
(* Three tools on concrete bodies.  The upstream is one of Transports: a   *)
(* failed GET, or an answer whose body is a JSON object (a text for the    *)
(* incident feed) given in full beside it.                                 *)
(***************************************************************************)

Transports ==
    {u \in Responses :
        /\ u.kind = "response" => u.json = "object" /\ u.payload = "good"
        /\ u.mint = "absent" /\ u.text = "nomatch"}

(***************************************************************************)
(* The Helius holder distribution on a concrete sample, src/tools.py.      *)
(***************************************************************************)

\* holders[:10]
TopN == 10

\* the largest sample and the largest amount explored
MaxHolders == 12
MaxAmount == 2

\* the largest amount of a lone large holder
MaxLargeAmount == 7

\* s[:n]
Slice(s, n) == SubSeq(s, 1, IF Len(s) < n THEN Len(s) ELSE n)

\* sum(float(h.get("amount", 0)) for h in hs); a holder is modelled by its
\* amount, a missing amount by 0.
RECURSIVE SumAmounts(_)
SumAmounts(hs) ==
    IF hs = <<>> THEN 0 ELSE Head(hs) + SumAmounts(Tail(hs))

\* The top ten taken as the whole sample.
total_top_10_whole(holders) == SumAmounts(holders)

total_top_10(holders) == SumAmounts(Slice(holders, TopN))

total_supply(holders) == SumAmounts(holders)

\* (total_top_10 / total_supply * 100) if total_supply > 0 else 0, kept as
\* the fraction num/den.
Percentage(part, total) ==
    IF total > 0 THEN [num |-> part * 100, den |-> total]
    ELSE [num |-> 0, den |-> 1]

\* f"{p:.2f}": p rounded to two decimals, to the nearest and on a tie to
\* the even digit, given as hundredths (9091 is "90.91").
Format2f(p) ==
    LET x == p.num * 100
        q == x \div p.den
        r == x % p.den
    IN  IF 2 * r > p.den \/ (2 * r = p.den /\ q % 2 = 1) THEN q + 1 ELSE q

concentration_risk(p) ==
    IF p.num > 70 * p.den THEN "CRITICAL"
    ELSE IF p.num > 50 * p.den THEN "HIGH"
    ELSE IF p.num > 30 * p.den THEN "MEDIUM"
    ELSE "LOW"

\* The 200 branch once holders = data.get("holders", []) is read.  A
\* top-holder percentage is <<hundredths>>, the text "N/A" <<>>; in
\* top_10_holders "0%" is 0.
holder_distribution(holders) ==
    IF holders # <<>>
    THEN LET top_10_percentage ==
                 Percentage(total_top_10(holders), total_supply(holders))
         IN  [status |-> "success",
              holder_distribution |->
                 <<[total_holders |-> Len(holders),
                    top_10_concentration |-> Format2f(top_10_percentage),
                    top_holder_percentage |->
                        IF total_supply(holders) > 0
                        THEN <<Format2f(Percentage(holders[1],
                                                   total_supply(holders)))>>
                        ELSE <<>>,
                    concentration_risk |->
                        concentration_risk(top_10_percentage)]>>,
              top_10_holders |->
                 [i \in 1..Len(Slice(holders, TopN)) |->
                     IF total_supply(holders) > 0
                     THEN Format2f(Percentage(holders[i],
                                              total_supply(holders)))
                     ELSE 0]]
    ELSE [status |-> "no_data", holder_distribution |-> <<>>,
          top_10_holders |-> <<>>]

\* The samples explored: k holders with one amount followed by holders with
\* another, in upstream order; and samples of TopN + 1 holders in which
\* only the first and the last hold anything, which put the top-10
\* concentration on and around 30%, 50% and 70%.
HolderSamples ==
    {[i \in 1..n |-> IF i <= k THEN a ELSE b] :
        n \in 0..MaxHolders, k \in 0..MaxHolders,
        a \in 0..MaxAmount, b \in 0..MaxAmount}
    \cup {[i \in 1..(TopN + 1) |->
              IF i = 1 THEN x ELSE IF i = TopN + 1 THEN y ELSE 0] :
            x \in 0..MaxLargeAmount, y \in 0..MaxLargeAmount}

NoHolders == [status |-> "error", holder_distribution |-> <<>>,
              top_10_holders |-> <<>>]

\* The tool against upstream u answering, on a 200, {"holders": holders}.
get_token_holder_distribution_helius_of(u, holders) ==
    Try(IF GetRaises(u) THEN Raise(1)
        ELSE IF u.code = 200 THEN Ret(holder_distribution(holders), 1)
        ELSE Ret(NoHolders, 1),
        NoHolders)

NoHolderCall ==
    [state |-> "none", u |-> NoResponse, holders |-> <<>>, returned |-> <<>>]

PendingHolderCalls ==
    {[NoHolderCall EXCEPT !.state = "pending", !.u = u, !.holders = hs] :
        u \in Transports, hs \in HolderSamples}

InvokeHolderDistribution ==
    /\ holderCall.state = "pending"
    /\ holderCall' =
          [holderCall EXCEPT !.state = "done",
              !.returned =
                 <<get_token_holder_distribution_helius_of(
                       holderCall.u, holderCall.holders).result>>]
    /\ UNCHANGED <<call, incidentCall, trendingCall>>
    /\ UNCHANGED <<execVars, startVars, agentVars>>

(***************************************************************************)
(* The SlowMist incident search on a concrete document, src/tools.py.      *)
(***************************************************************************)

\* token_address[:8]
AddressPrefix == 8

\* the longest feed document enumerated letter by letter
MaxDocLen == 3

\* Text is a sequence of letters; two letters with both cases suffice.
Letters == {"a", "A", "b"}

\* The same string: lower() left out.
lower_unchanged(s) == s

\* str.lower()
lower(s) == [i \in 1..Len(s) |-> IF s[i] = "A" THEN "a" ELSE s[i]]

\* `sub in s` for two strings
contains(sub, s) ==
    \E i \in 0..(Len(s) - Len(sub)) : SubSeq(s, i + 1, i + Len(sub)) = sub

\* project_name or token_address[:8]; an absent project name (None) is
\* <<>>, a supplied one <<name>>, and None and "" are both falsy.
search_term(token_address, project_name) ==
    IF project_name # <<>> /\ project_name[1] # <<>>
    THEN project_name[1]
    ELSE Slice(token_address, AddressPrefix)

\* The 200 branch once html = response.text is read.
incident_search(token_address, project_name, html) ==
    IF contains(lower(search_term(token_address, project_name)), lower(html))
    THEN [status |-> "warning", risk_level |-> "high"]
    ELSE [status |-> "clean", risk_level |-> "low"]

Repeat(c, n) == [i \in 1..n |-> c]

Documents ==
    UNION {[1..n -> Letters] : n \in 0..MaxDocLen}
    \cup {Repeat("a", AddressPrefix), Repeat("A", AddressPrefix) \o <<"b">>,
          Repeat("a", AddressPrefix - 1) \o <<"b">>}

ProjectNames ==
    {<<>>, <<<<>>>>, <<<<"a">>>>, <<<<"A", "b">>>>, <<<<"b", "b">>>>}

Addresses ==
    {<<>>, <<"A", "b">>, Repeat("a", AddressPrefix) \o <<"b">>,
     Repeat("A", AddressPrefix), Repeat("a", AddressPrefix - 1) \o <<"b", "b">>}

\* The tool against upstream u answering, on a 200, the text html.
check_security_incidents_of(u, token_address, project_name, html) ==
    Try(IF GetRaises(u) THEN Raise(1)
        ELSE IF u.code = 200
        THEN Ret(incident_search(token_address, project_name, html), 1)
        ELSE Ret([status |-> "unknown", risk_level |-> "none"], 1),
        [status |-> "error", risk_level |-> "none"])

NoIncidentCall ==
    [state |-> "none", u |-> NoResponse, token_address |-> <<>>,
     project_name |-> <<>>, html |-> <<>>, returned |-> <<>>]

PendingIncidentCalls ==
    {[NoIncidentCall EXCEPT !.state = "pending", !.u = u,
         !.token_address = a, !.project_name = p, !.html = h] :
        u \in Transports, a \in Addresses, p \in ProjectNames,
        h \in Documents}

InvokeIncidentSearch ==
    /\ incidentCall.state = "pending"
    /\ incidentCall' =
          [incidentCall EXCEPT !.state = "done",
              !.returned =
                 <<check_security_incidents_of(
                       incidentCall.u, incidentCall.token_address,
                       incidentCall.project_name, incidentCall.html).result>>]
    /\ UNCHANGED <<call, holderCall, trendingCall>>
    /\ UNCHANGED <<execVars, startVars, agentVars>>

(***************************************************************************)
(* The DexScreener trending list on a concrete pair list, src/tools.py.    *)
(***************************************************************************)

\* data.get("pairs", [])[:10]
TrendingLimit == 10

\* the longest upstream pair list explored
MaxPairs == 12

\* pair.get("volume", {}).get("h24", 0) and
\* pair.get("liquidity", {}).get("usd", 0): the upstream figure as it is,
\* 0 when the key is missing.  A figure is <<>> (missing) or <<value>>.
get_default(field, default) == IF field = <<>> THEN default ELSE field[1]

trending_entry(pair) ==
    [symbol |-> pair.symbol,
     volume_24h |-> get_default(pair.volume, 0),
     liquidity_usd |-> get_default(pair.liquidity, 0)]

\* The 200 branch once data = response.json() is read.
trending_tokens(pairs) ==
    LET tokens == Slice(pairs, TrendingLimit)
    IN  [status |-> "success",
         trending_tokens |-> [i \in 1..Len(tokens) |-> trending_entry(tokens[i])]]

\* Upstream figures: missing, negative, zero, positive.
Figures == {<<>>, <<-1>>, <<0>>, <<1>>}

\* Upstream lists: n pairs named 1..n with the same figures.
PairLists ==
    {[i \in 1..n |-> [symbol |-> i, volume |-> v, liquidity |-> l]] :
        n \in 0..MaxPairs, v \in Figures, l \in Figures}

\* The tool against upstream u answering, on a 200, {"pairs": pairs}.
get_trending_tokens_of(u, pairs) ==
    Try(IF GetRaises(u) THEN Raise(1)
        ELSE IF u.code = 200 THEN Ret(trending_tokens(pairs), 1)
        ELSE Ret([status |-> "error", trending_tokens |-> <<>>], 1),
        [status |-> "error", trending_tokens |-> <<>>])

NoTrendingCall ==
    [state |-> "none", u |-> NoResponse, pairs |-> <<>>, returned |-> <<>>]

PendingTrendingCalls ==
    {[NoTrendingCall EXCEPT !.state = "pending", !.u = u, !.pairs = ps] :
        u \in Transports, ps \in PairLists}

InvokeTrending ==
    /\ trendingCall.state = "pending"
    /\ trendingCall' =
          [trendingCall EXCEPT !.state = "done",
              !.returned =
                 <<get_trending_tokens_of(trendingCall.u,
                                          trendingCall.pairs).result>>]
    /\ UNCHANGED <<call, holderCall, incidentCall>>
    /\ UNCHANGED <<execVars, startVars, agentVars>>

(***************************************************************************)
(* Specifications.                                                         *)
(***************************************************************************)

NoStartup ==
    [entry |-> "none", at |-> "none", key |-> "unread", error |-> "none",
     agent |-> FALSE, llm |-> FALSE, served |-> FALSE]

IdleConcrete ==
    /\ holderCall = NoHolderCall
    /\ incidentCall = NoIncidentCall
    /\ trendingCall = NoTrendingCall

IdleTools == call = NoCall /\ IdleConcrete

IdleExec ==
    /\ ctx = [r \in Requests |-> [message |-> FALSE, current_task |-> FALSE]]
    /\ pc = [r \in Requests |-> "idle"]
    /\ queue = [r \in Requests |-> <<>>]
    /\ generated = [r \in Requests |-> <<>>]
    /\ error = [r \in Requests |-> "none"]
    /\ cancelResult = [r \in Requests |-> [result |-> "none", at |-> "none"]]
    /\ agentMethods = DeFiRiskAgent

IdleStartup ==
    /\ environ = "set"
    /\ dotenv = "absent"
    /\ vertex = FALSE
    /\ startup = NoStartup

IdleLoops ==
    /\ run = NoRun
    /\ repl = NoRepl
    /\ shared = NoShared

IdleAgent ==
    /\ agent = ClosedAgent
    /\ analysis = NoAnalysis
    /\ IdleLoops

\* --- the tools: every tool against every upstream behaviour ---
InitTools ==
    /\ call \in {c \in PendingCalls : c.u2 \in SecondSource(c.tool)}
    /\ IdleConcrete
    /\ IdleExec /\ IdleStartup /\ IdleAgent

NextTools == InvokeTool

SpecTools == InitTools /\ [][NextTools]_vars

\* --- the executor, with the agent the repository defines ---
InitExec(methods) ==
    /\ ctx \in [Requests -> [message : BOOLEAN, current_task : BOOLEAN]]
    /\ pc = [r \in Requests |-> "ready"]
    /\ queue = [r \in Requests |-> <<>>]
    /\ generated = [r \in Requests |-> <<>>]
    /\ error = [r \in Requests |-> "none"]
    /\ cancelResult = [r \in Requests |-> [result |-> "none", at |-> "none"]]
    /\ agentMethods = methods

Init == IdleTools /\ InitExec(DeFiRiskAgent) /\ IdleStartup /\ IdleAgent

Next ==
    \E r \in Requests :
        \/ execute_begin(r)
        \/ execute_stream(r)
        \/ cancel(r)

Spec == Init /\ [][Next]_vars

\* --- the executor, with an agent that offers stream() ---
InitStream ==
    IdleTools /\ InitExec(DeFiRiskAgent \cup {"stream"}) /\ IdleStartup /\ IdleAgent

NextStream ==
    \E r \in Requests :
        \/ execute_begin(r)
        \/ execute_stream(r)
        \/ execute_item(r)
        \/ execute_end(r)
        \/ execute_stream_raises(r)

SpecStream == InitStream /\ [][NextStream]_vars

\* --- start-up ---
InitStartup ==
    /\ IdleTools /\ IdleExec /\ IdleAgent
    /\ environ \in KeyStates
    /\ dotenv \in KeyStates
    /\ vertex \in BOOLEAN
    /\ \E e \in {"interactive", "service"} :
          startup = [NoStartup EXCEPT !.entry = e, !.at = "boot"]

NextStartup ==
    \/ import_config
    \/ main_load_dotenv
    \/ main_check
    \/ construct_agent
    \/ interactive_initialize
    \/ serve

SpecStartup == InitStartup /\ [][NextStartup]_vars

\* --- analyze ---
InitAnalyze ==
    /\ IdleTools /\ IdleExec /\ IdleStartup
    /\ agent = ClosedAgent
    /\ analysis \in PendingAnalyses
    /\ IdleLoops

NextAnalyze ==
    \/ DeFiRiskAgent_initialize
    \/ DeFiRiskAgent_analyze
    \/ DeFiRiskAgent_close

SpecAnalyze == InitAnalyze /\ [][NextAnalyze]_vars

\* --- one agent run ---
InitRun ==
    /\ IdleTools /\ IdleExec /\ IdleStartup
    /\ agent = initialized(ClosedAgent)
    /\ analysis = NoAnalysis
    /\ repl = NoRepl
    /\ shared = NoShared
    /\ run = [NoRun EXCEPT !.state = "planning"]

NextRun ==
    \/ agent_tool_call
    \/ agent_reply

SpecRun == InitRun /\ [][NextRun]_vars

\* --- the holder distribution on concrete samples ---
InitHolders ==
    /\ call = NoCall
    /\ holderCall \in PendingHolderCalls
    /\ incidentCall = NoIncidentCall
    /\ trendingCall = NoTrendingCall
    /\ IdleExec /\ IdleStartup /\ IdleAgent

NextHolders == InvokeHolderDistribution

SpecHolders == InitHolders /\ [][NextHolders]_vars

\* --- the incident search on concrete documents ---
InitIncident ==
    /\ call = NoCall
    /\ holderCall = NoHolderCall
    /\ incidentCall \in PendingIncidentCalls
    /\ trendingCall = NoTrendingCall
    /\ IdleExec /\ IdleStartup /\ IdleAgent

NextIncident == InvokeIncidentSearch

SpecIncident == InitIncident /\ [][NextIncident]_vars

\* --- the trending list on concrete pair lists ---
InitTrending ==
    /\ call = NoCall
    /\ holderCall = NoHolderCall
    /\ incidentCall = NoIncidentCall
    /\ trendingCall \in PendingTrendingCalls
    /\ IdleExec /\ IdleStartup /\ IdleAgent

NextTrending == InvokeTrending

SpecTrending == InitTrending /\ [][NextTrending]_vars

\* --- the interactive loop ---
InitLoop ==
    /\ IdleTools /\ IdleExec /\ IdleStartup
    /\ agent = ClosedAgent
    /\ analysis = NoAnalysis
    /\ run = NoRun
    /\ shared = NoShared
    /\ repl = [NoRepl EXCEPT !.at = "start"]

NextLoop ==
    \/ interactive_mode_begin
    \/ interactive_mode_turn

SpecLoop == InitLoop /\ [][NextLoop]_vars

\* --- concurrent calls on one shared agent ---
InitShared ==
    /\ IdleTools /\ IdleExec /\ IdleStartup
    /\ agent = ClosedAgent
    /\ analysis = NoAnalysis
    /\ run = NoRun
    /\ repl = NoRepl
    /\ shared = [NoShared EXCEPT !.pc = [c \in Callers |-> "idle"]]

NextShared ==
    \/ \E c \in Callers : shared_call(c) \/ shared_return(c)
    \/ shared_initialize
    \/ shared_close

SpecShared == InitShared /\ [][NextShared]_vars

(***************************************************************************)
(* Properties of the tools (SpecTools).                                    *)
(***************************************************************************)

\* C1: for every registered tool and every upstream behaviour (connection
\* failure, timeout, non-200 status, 200 with missing or malformed fields),
\* one invocation hands the caller exactly one result record and no
\* exception leaves the tool.
C1_OneResultNoException ==
    call.state = "done" => Len(call.returned) = 1 /\ ~call.escaped

\* C1 witness: a tool has answered a 200 response whose JSON is not an
\* object (data.get raised inside the tool) with an error record.
C1_Witness ==
    /\ call.state = "done"
    /\ call.tool = "analyze_token_security"
    /\ call.u.kind = "response" /\ call.u.code = 200 /\ call.u.json = "array"
    /\ Len(call.returned) = 1
    /\ call.returned[1].status = "error"

C2_OwnTags(t) ==
    CASE t = "check_security_incidents" -> {"warning", "clean", "unknown"}
      [] t = "check_certik_audit_status" -> {"not_audited"}
      [] t = "get_token_holder_distribution_helius" -> {"no_data"}
      [] OTHER -> {}

StatusEvents(q) == SelectSeq(q, LAMBDA e : e.kind = "status")

\* working*, then at most one input_required, then completed
WorkingInputCompleted(st) ==
    /\ Len(st) >= 1
    /\ st[Len(st)].state = "completed"
    /\ \A i \in 1..(Len(st) - 1) :
          \/ st[i].state = "working"
          \/ i = Len(st) - 1 /\ st[i].state = "input_required"

\* every completed status comes right behind a final, non-appended artifact
\* that carries the report text
ArtifactWithCompleted(q) ==
    \A i \in 1..Len(q) :
        q[i].kind = "status" /\ q[i].state = "completed" =>
            /\ i > 1
            /\ q[i - 1].kind = "artifact"
            /\ q[i - 1].last_chunk /\ ~q[i - 1].append
            /\ q[i - 1].text > 0

\* C3: for every request the executor has handled, the status events on
\* its queue are zero or more working, then at most one input_required,
\* then completed, and the completed status is enqueued together with a
\* final (last_chunk, not appended) artifact holding the report text.
C3_WorkingThenCompleted ==
    \A r \in Requests :
        ctx[r].message /\ pc[r] \in {"done", "raised"} =>
            /\ WorkingInputCompleted(StatusEvents(queue[r]))
            /\ ArtifactWithCompleted(queue[r])

\* The events of a queue that carry the content of a stream item.
ContentEvents(q) == SelectSeq(q, LAMBDA e : e.text > 0)

\* C4: on each request's queue the events that carry stream items are the
\* items the stream generated for that request, each once and in generation
\* order, and every event on the queue belongs to that request, whatever
\* the interleaving with the other request.
C4_GenerationOrder ==
    \A r \in Requests :
        LET c == ContentEvents(queue[r])
        IN  /\ Len(c) = Len(generated[r])
            /\ \A i \in 1..Len(c) :
                  /\ c[i].text = generated[r][i].content
                  /\ c[i].text = i
            /\ \A i \in 1..Len(queue[r]) : queue[r][i].task_id[1] = r

\* C4 witness: both requests are streaming at once; one has had two items
\* delivered and the other one.
C4_Witness ==
    /\ pc["r1"] = "streaming" /\ pc["r2"] = "streaming"
    /\ Len(generated["r1"]) = 2 /\ Len(generated["r2"]) = 1
    /\ Len(ContentEvents(queue["r1"])) = 2

\* C5: for a request that carries a message, execute() propagates no
\* exception, and when it has returned a terminal status event (final:
\* completed or input_required) is on the queue.
C5_NoExceptionTerminalEvent ==
    \A r \in Requests :
        ctx[r].message =>
            /\ pc[r] # "raised"
            /\ pc[r] = "done" =>
                  \E i \in 1..Len(queue[r]) :
                      /\ queue[r][i].kind = "status"
                      /\ queue[r][i].final
                      /\ queue[r][i].state \in {"completed", "input_required"}

\* C6: in every state cancel() can be called, and every call raises: it
\* never returns silently, enqueues no event, and leaves the request, the
\* position of execute() and what the stream has yielded as they were.
C6_CancelAlwaysRejects ==
    /\ [](\A r \in Requests : ENABLED cancel(r))
    /\ [][\A r \in Requests :
             cancelResult'[r] # cancelResult[r] =>
                 /\ cancelResult'[r].result = "raised"
                 /\ queue' = queue /\ pc' = pc /\ ctx' = ctx
                 /\ generated' = generated /\ error' = error]_vars

\* C6 witness: cancel() was called while execute() was in flight (its task
\* enqueued, the agent not yet called) and raised; the queue still holds
\* the task event alone.
C6_Witness ==
    /\ cancelResult["r1"] = [result |-> "raised", at |-> "created"]
    /\ pc["r1"] = "created"
    /\ Len(queue["r1"]) = 1

C25_NothingAfterFinal ==
    \A r \in Requests :
        \A i \in 1..Len(queue[r]) :
            queue[r][i].final => i = Len(queue[r])

\* C27: a request without a message fails with nothing enqueued; for a
\* request without a current task the new task is the first event on the
\* queue and the only task event, and every later event carries its id and
\* context id; for a request with a current task no task event is enqueued.
C27_TaskFirstAndCarried ==
    \A r \in Requests :
        /\ ~ctx[r].message =>
              /\ queue[r] = <<>>
              /\ pc[r] \in {"ready", "raised"}
        /\ ctx[r].message /\ ~ctx[r].current_task /\ pc[r] # "ready" =>
              /\ queue[r] # <<>>
              /\ queue[r][1].kind = "task"
              /\ \A i \in 2..Len(queue[r]) :
                    /\ queue[r][i].kind # "task"
                    /\ queue[r][i].task_id = queue[r][1].task_id
                    /\ queue[r][i].context_id = queue[r][1].context_id
        /\ ctx[r].current_task =>
              \A i \in 1..Len(queue[r]) : queue[r][i].kind # "task"

\* C27 witness: r1 came without a task and has its new task and two later
\* events on its queue; r2 came with a task and has events but no task
\* event.
C27_Witness ==
    /\ ctx["r1"].message /\ ~ctx["r1"].current_task
    /\ Len(queue["r1"]) >= 3
    /\ queue["r1"][1].kind = "task"
    /\ ctx["r2"].message /\ ctx["r2"].current_task
    /\ Len(queue["r2"]) >= 1

(***************************************************************************)
(* Properties of start-up (SpecStartup).                                   *)
(***************************************************************************)

C23_VertexStartsWithoutKey ==
    /\ startup.entry = "service"
    /\ vertex
    /\ environ = "absent"
    /\ dotenv = "absent"
    => startup.at # "failed"

(***************************************************************************)
(* Properties of analyze (SpecAnalyze).                                    *)
(***************************************************************************)

\* C8: every analyze() call returns an assessment whose score is an
\* integer within 1..10 and whose verdict is SAFE, CAUTION, DANGEROUS or
\* CRITICAL, whatever the tools returned.
C8_ScoreAndVerdictInRange ==
    analysis.state \in {"returned", "raised"} =>
        /\ analysis.state = "returned"
        /\ analysis.has_score
        /\ analysis.score \in 1..10
        /\ analysis.verdict \in Verdicts

\* C9: when the security tool reported active (not renounced) mint
\* authority, the verdict of the returned assessment is never SAFE.
C9_ActiveMintNeverSafe ==
    /\ analysis.state = "returned"
    /\ analysis.security.status = "success"
    /\ analysis.security.mint_authority = "active"
    => analysis.verdict # "SAFE"

\* C10: when the incident tool reported a match, the verdict the returned
\* assessment gives is CRITICAL.
C10_IncidentMatchCritical ==
    /\ analysis.state = "returned"
    /\ analysis.incident.status = "warning"
    /\ analysis.verdict \in Verdicts
    => analysis.verdict = "CRITICAL"

(***************************************************************************)
(* Properties of one agent run (SpecRun).                                  *)
(***************************************************************************)

\* The tools called before the i-th call of a run.
CalledBefore(calls, i) == {calls[j].tool : j \in 1..(i - 1)}

\* Phase 1 showed active mint authority or liquidity below $1,000.
Phase1Alarm(calls) ==
    \E i \in 1..Len(calls) :
        \/ /\ calls[i].tool = "analyze_token_security"
           /\ calls[i].result.status = "success"
           /\ calls[i].result.mint_authority = "active"
        \/ /\ calls[i].tool = "get_token_details"
           /\ calls[i].liquidity = "below_1k"

\* C11: in every run the three Phase 1 tools are called before any Phase 2
\* tool, and when Phase 1 shows active mint authority or liquidity below
\* $1,000 no Phase 2 tool is called in that run and the returned result is
\* classified DANGEROUS or CRITICAL.
C11_Phase1BeforePhase2 ==
    /\ \A i \in 1..Len(run.calls) :
          run.calls[i].tool \in Phase2 => Phase1 \subseteq CalledBefore(run.calls, i)
    /\ run.state = "returned" /\ Phase1Alarm(run.calls) =>
          /\ \A i \in 1..Len(run.calls) : run.calls[i].tool \notin Phase2
          /\ run.reply.verdict \in {"DANGEROUS", "CRITICAL"}

\* C12: a returned run whose tool calls all came back error or not_found
\* says that the data is insufficient and carries no numeric score; a
\* returned run in which at least one tool call succeeded carries an
\* assessment (a score or a verdict).
C12_InsufficientDataOrAssessment ==
    run.state = "returned" =>
        /\ ( /\ run.calls # <<>>
             /\ \A i \in 1..Len(run.calls) :
                   run.calls[i].result.status \in {"error", "not_found"} )
           => run.reply.insufficient /\ ~run.reply.has_score
        /\ (\E i \in 1..Len(run.calls) : run.calls[i].result.status = "success")
           => run.reply.has_score \/ run.reply.verdict \in Verdicts

(***************************************************************************)
(* Properties of the holder distribution (SpecHolders).                    *)
(***************************************************************************)

\* The sum of the first n amounts of a sample.
RECURSIVE SumFirst(_, _)
SumFirst(hs, n) == IF n = 0 THEN 0 ELSE hs[n] + SumFirst(hs, n - 1)

Min(a, b) == IF a < b THEN a ELSE b

Abs(x) == IF x < 0 THEN -x ELSE x

\* The Helius endpoint answered 200 with a sample whose total is total.
HoldersRetrieved ==
    /\ holderCall.state = "done"
    /\ holderCall.u.kind = "response" /\ holderCall.u.code = 200

SampleTotal == SumFirst(holderCall.holders, Len(holderCall.holders))

SampleTopTen ==
    SumFirst(holderCall.holders, Min(10, Len(holderCall.holders)))

Reported == holderCall.returned[1]

\* C13 as stated: for every non-empty sample with a positive total the
\* reported top-10 concentration equals sum(first ten) / sum(all) * 100
\* exactly, total_holders is the sample size, and a sample of at most ten
\* holders reports 100%.
C13_ExactConcentration ==
    HoldersRetrieved /\ holderCall.holders # <<>> /\ SampleTotal > 0 =>
        /\ Reported.status = "success"
        /\ Reported.holder_distribution[1].total_holders
              = Len(holderCall.holders)
        /\ Reported.holder_distribution[1].top_10_concentration * SampleTotal
              = SampleTopTen * 100 * 100
        /\ Len(holderCall.holders) <= 10 =>
              Reported.holder_distribution[1].top_10_concentration = 100 * 100

\* C13, amended: for every non-empty sample with a positive total the
\* reported top-10 concentration is sum(first ten) / sum(all) * 100 rounded
\* to two decimals (at most half a hundredth away from it), total_holders is
\* the sample size, and a sample of at most ten holders reports 100.00%.
C13_RoundedConcentration ==
    HoldersRetrieved /\ holderCall.holders # <<>> /\ SampleTotal > 0 =>
        /\ Reported.status = "success"
        /\ Reported.holder_distribution[1].total_holders
              = Len(holderCall.holders)
        /\ 2 * Abs(Reported.holder_distribution[1].top_10_concentration
                       * SampleTotal - SampleTopTen * 100 * 100)
              <= SampleTotal
        /\ Len(holderCall.holders) <= 10 =>
              Reported.holder_distribution[1].top_10_concentration = 100 * 100

\* A sample of more than ten holders whose tail holds part of the total and
\* whose concentration is no whole number of hundredths.
C13_Witness ==
    /\ HoldersRetrieved
    /\ Len(holderCall.holders) > 10
    /\ SampleTotal > 0 /\ SampleTopTen < SampleTotal
    /\ Reported.status = "success"
    /\ Reported.holder_distribution[1].top_10_concentration * SampleTotal
          # SampleTopTen * 100 * 100

\* C14: when the sample total is zero, for the empty sample and for a
\* non-empty sample of zero amounts alike, the tool returns a holder
\* distribution whose concentration is 0, and no error.
C14_ZeroTotalZeroConcentration ==
    HoldersRetrieved /\ SampleTotal = 0 =>
        /\ Reported.status # "error"
        /\ Reported.holder_distribution # <<>>
        /\ Reported.holder_distribution[1].top_10_concentration = 0

\* The bucket the claim gives a top-10 concentration of top / total (0 when
\* the total is 0).
BucketOf(top, total) ==
    LET t == IF total > 0 THEN top ELSE 0
        d == IF total > 0 THEN total ELSE 1
    IN  IF t * 100 > 70 * d THEN "CRITICAL"
        ELSE IF t * 100 > 50 * d THEN "HIGH"
        ELSE IF t * 100 >= 30 * d THEN "MEDIUM"
        ELSE "LOW"

RiskRank(b) ==
    CASE b = "LOW" -> 1 [] b = "MEDIUM" -> 2 [] b = "HIGH" -> 3
      [] b = "CRITICAL" -> 4

\* C24: concentration_risk is CRITICAL exactly when top-10 > 70%, HIGH when
\* 50% < top-10 <= 70%, MEDIUM when 30% <= top-10 <= 50% and LOW exactly
\* when top-10 < 30%; the bucket never falls as the concentration rises.
C24_ConcentrationBuckets ==
    /\ HoldersRetrieved /\ holderCall.holders # <<>> =>
          Reported.holder_distribution[1].concentration_risk
             = BucketOf(SampleTopTen, SampleTotal)
    /\ \A p \in 0..99 :
          RiskRank(concentration_risk([num |-> p, den |-> 1]))
             <= RiskRank(concentration_risk([num |-> p + 1, den |-> 1]))

(***************************************************************************)
(* Further properties of the tools (SpecTools).                            *)
(***************************************************************************)

SecuritySuccess ==
    /\ call.tool = "analyze_token_security"
    /\ call.state = "done"
    /\ call.returned # <<>>
    /\ call.returned[1].status = "success"

\* C15 as stated: a successful security result has risk_level high when
\* the upstream reports the mint authority not renounced, and medium or
\* unknown in every other case, the missing field included.
C15_HighOnlyWhenNotRenounced ==
    SecuritySuccess =>
        /\ call.u.mint = "active" => call.returned[1].risk_level = "high"
        /\ call.u.mint # "active" =>
              call.returned[1].risk_level \in {"medium", "unknown"}

\* C15, amended: a successful security result has risk_level high when the
\* upstream reports the mint authority not renounced or does not carry the
\* field, and medium when it reports it renounced; it is never unknown.
C15_HighUnlessRenounced ==
    SecuritySuccess =>
        /\ call.u.mint \in {"active", "absent"} =>
              call.returned[1].risk_level = "high"
        /\ call.u.mint = "renounced" => call.returned[1].risk_level = "medium"
        /\ call.returned[1].risk_level # "unknown"

\* A successful result for an upstream record without the field.
C15_Witness ==
    /\ SecuritySuccess
    /\ call.u.mint = "absent"
    /\ call.returned[1].mint_authority = "unknown"
    /\ call.returned[1].risk_level = "high"

MetadataDone ==
    call.tool = "get_token_metadata_and_security" /\ call.state = "done"

\* The primary source failed: a raised network error, a status other than
\* 200, or a 200 that reports no such token.
PrimaryFailed(u) ==
    \/ u.kind # "response"
    \/ u.code # 200
    \/ u.code = 200 /\ u.json = "object" /\ u.payload \in {"absent", "null"}

\* C16: the metadata tool queries the fallback exactly once after every
\* kind of primary failure, and never when the primary succeeds.
C16_FallbackOnEveryPrimaryFailure ==
    MetadataDone =>
        /\ PrimaryFailed(call.u) => call.calls = 2
        /\ ( /\ call.returned # <<>>
             /\ call.returned[1].source = "Solscan" ) => call.calls = 1

\* C17 as stated: every invocation of every registered tool issues exactly
\* one outbound call.
C17_ExactlyOneCall ==
    call.state = "done" => call.calls = 1

\* C17, amended: every invocation of every registered tool issues exactly
\* one outbound call, except that the metadata tool issues a second one, to
\* its fallback source, when the primary answers with a status other than
\* 200; no invocation issues more than two.
C17_OneCallOrFallback ==
    call.state = "done" =>
        /\ call.calls \in {1, 2}
        /\ call.calls = 2 <=>
              /\ call.tool = "get_token_metadata_and_security"
              /\ call.u.kind = "response"
              /\ call.u.code # 200

\* A metadata invocation whose primary answered 404 or 500 and that went
\* on to the fallback.
C17_Witness ==
    /\ MetadataDone
    /\ call.u.kind = "response" /\ call.u.code # 200
    /\ call.calls = 2

(***************************************************************************)
(* Properties of the incident search (SpecIncident).                       *)
(***************************************************************************)

\* Two letters that differ at most in case.
SameLetter(c, d) == c = d \/ {c, d} = {"a", "A"}

\* term occurs in doc, ignoring case.
OccursIgnoringCase(term, doc) ==
    \E i \in 0..(Len(doc) - Len(term)) :
        \A j \in 1..Len(term) : SameLetter(doc[i + j], term[j])

\* The project name when a (non-empty) one is supplied, else the first
\* eight characters of the token address.
TermSearched ==
    IF incidentCall.project_name # <<>> /\ incidentCall.project_name[1] # <<>>
    THEN incidentCall.project_name[1]
    ELSE [j \in 1..Min(8, Len(incidentCall.token_address)) |->
             incidentCall.token_address[j]]

FeedRetrieved ==
    /\ incidentCall.state = "done"
    /\ incidentCall.u.kind = "response" /\ incidentCall.u.code = 200

\* C18: when the feed is retrieved, the tool reports a match exactly when
\* the search term occurs in the feed document ignoring case, the term
\* being the project name when one is supplied and else the first eight
\* characters of the token address.
C18_MatchIffTermOccurs ==
    FeedRetrieved =>
        /\ incidentCall.returned[1].status \in {"warning", "clean"}
        /\ incidentCall.returned[1].status = "warning"
              <=> OccursIgnoringCase(TermSearched, incidentCall.html)

\* A match found through the address prefix, in letters of another case.
C18_Witness ==
    /\ FeedRetrieved
    /\ incidentCall.project_name = <<>>
    /\ Len(incidentCall.token_address) > AddressPrefix
    /\ incidentCall.returned[1].status = "warning"
    /\ ~contains(TermSearched, incidentCall.html)

(***************************************************************************)
(* Properties of the trending list (SpecTrending).                         *)
(***************************************************************************)

\* C19: a successful trending call returns at most ten entries, the first
\* entries of the upstream list in upstream order, each with non-negative
\* volume_24h and liquidity_usd.
C19_FirstTenNonNegative ==
    /\ trendingCall.state = "done"
    /\ trendingCall.returned[1].status = "success"
    => LET entries == trendingCall.returned[1].trending_tokens IN
       /\ Len(entries) <= 10
       /\ Len(entries) = Min(10, Len(trendingCall.pairs))
       /\ \A i \in 1..Len(entries) :
             /\ entries[i].symbol = trendingCall.pairs[i].symbol
             /\ entries[i].volume_24h >= 0
             /\ entries[i].liquidity_usd >= 0

(***************************************************************************)
(* Properties of the interactive loop (SpecLoop).                          *)
(***************************************************************************)

\* C20: entering quit or exit ends the loop and closes the agent without
\* the text reaching the agent, help shows the help text again, and only
\* other input is sent to the agent as a query.
C20_VerbsRecognised ==
    /\ repl.last \in {"quit", "exit"} =>
          repl.at = "ended" /\ agent = ClosedAgent
    /\ repl.last = "help" => repl.help_shown > 1
    /\ repl.sent \cap {"quit", "exit", "help"} = {}

\* C21: a failure while one query is processed gives readable text and no
\* exception leaves the loop, and however the loop is left (end of input,
\* interrupt, error) the agent is closed.
C21_NoExceptionLeavesLoop ==
    /\ repl.last \in repl.sent => ~repl.raised
    /\ repl.at = "ended" => agent = ClosedAgent

(***************************************************************************)
(* Properties of the shared agent (SpecShared).                            *)
(***************************************************************************)

\* C26: between two closes the model and the agent are constructed at most
\* once, whatever the interleaving of the calls; initialize() on an
\* initialized agent changes nothing; and whenever _initialized is true the
\* agent and the tools are not None.
C26_SetupAtMostOnce ==
    /\ shared.setups <= 1
    /\ shared.last.op = "initialize" /\ shared.last.before._initialized =>
          agent = shared.last.before
    /\ agent._initialized => agent.agent # "None" /\ agent.tools # "None"

\* C26 witness: both callers are inside the model call at once, the agent
\* was set up once, and initialize() has just been called on it again.
C26_Witness ==
    /\ \A c \in Callers : shared.pc[c] = "ainvoke"
    /\ shared.setups = 1
    /\ shared.last.op = "initialize"
    /\ shared.last.before._initialized

====
